---- MODULE Spec2Model ----
(***************************************************************************)
(* Entitlement ledger (EntitlementDAL, src/dynamodb_dal.py) and the        *)
(* speaking WebSocket handler (src/deployment/lambda_speaking_handler.py). *)
(*                                                                         *)
(* The entitlements table is a DynamoDB table keyed by (user_id,           *)
(* product_id); every DAL method is split at its store operations, so the  *)
(* calls of concurrent callers interleave between a query and the write    *)
(* that follows it.  The store itself is modelled as working and strongly  *)
(* consistent, except in SpecFaults, where any store call may raise.       *)
(***************************************************************************)
EXTENDS Integers, Sequences, FiniteSets, TLC

\* ---------------------------------------------------------------- bounds
MaxWorkers == 2
MaxCalls == 4
MaxSeqCalls == 5
MaxHandlerCalls == 2
MaxEvents == 3
MaxRouterCalls == 6
MaxMinutes == 32
MaxSessionCalls == 4
MaxSeconds == 841
MaxFaultCalls == 3
MaxLifecycleCalls == 4

\* ------------------------------------------------------------- text model
\* Python strings are sequences of one-character strings; Alphabet lists
\* the characters in code-point order (the order DynamoDB sorts a string
\* sort key by).
Alphabet ==
    << " ", "-", ".", "0", "1", "A", "W", "_",
       "a", "c", "d", "e", "g", "i", "l", "m", "n", "o", "p", "r", "s",
       "t", "u", "w", "x" >>

Ord(c) == CHOOSE i \in 1..Len(Alphabet) : Alphabet[i] = c

\* str.lower() on one character
LowerChar(c) == IF c = "A" THEN "a" ELSE IF c = "W" THEN "w" ELSE c

\* str.lower()
Lower(s) == [i \in 1..Len(s) |-> LowerChar(s[i])]

\* the operator `in` of two Python strings: sub occurs in s
Contains(sub, s) ==
    \E k \in 0..(Len(s) - Len(sub)) :
        \A i \in 1..Len(sub) : s[k + i] = sub[i]

\* a blank test that only knows the empty string
IsBlankEmptyOnly(s) == s = << >>

\* str.strip() leaves nothing: every character is whitespace
IsBlank(s) == \A i \in 1..Len(s) : s[i] = " "

RECURSIVE LexLess(_, _)
LexLess(s, t) ==
    IF t = << >> THEN FALSE
    ELSE IF s = << >> THEN TRUE
    ELSE IF Ord(Head(s)) # Ord(Head(t)) THEN Ord(Head(s)) < Ord(Head(t))
    ELSE LexLess(Tail(s), Tail(t))

\* ------------------------------------------------------------ the inputs
Users == {"u1", "u2"}

Products == {"com.ieltsaiprep.academic.writing", "academic_writing"}

ModuleTypes == {"academic_writing", "writing"}

TransactionIds == {"tx-001", "tx-dup", "", " "}

Text(name) ==
    CASE name = "com.ieltsaiprep.academic.writing" ->
            << "c", "o", "m", ".", "i", "e", "l", "t", "s", "a", "i", "p",
               "r", "e", "p", ".", "a", "c", "a", "d", "e", "m", "i", "c",
               ".", "w", "r", "i", "t", "i", "n", "g" >>
      [] name = "academic_writing" ->
            << "a", "c", "a", "d", "e", "m", "i", "c", "_",
               "w", "r", "i", "t", "i", "n", "g" >>
      [] name = "writing" -> << "w", "r", "i", "t", "i", "n", "g" >>
      [] name = "tx-001" -> << "t", "x", "-", "0", "0", "1" >>
      [] name = "tx-dup" -> << "t", "x", "-", "d", "u", "p" >>
      [] name = "" -> << >>
      [] name = " " -> << " " >>

\* PRODUCT_ASSESSMENTS.get(product_id, 2)
PRODUCT_ASSESSMENTS(product_id) ==
    CASE product_id = "com.ieltsaiprep.academic.writing" -> 2
      [] product_id = "academic_writing" -> 2
      [] OTHER -> 2

AssessmentIds == {"asmt-1"}

Workers == 1..MaxWorkers

Connections == {"conn-1", "conn-2"}

\* the primary key of the entitlements table: (user_id, product_id)
Keys == Users \X Products

VARIABLES
    table,            \* the entitlements table: a set of items, one per key
    clock,            \* datetime.utcnow(), in ticks
    callers,          \* the callers that issue DAL calls
    observed,         \* which of the records `last` and `access_checked` are kept
    calls_left,       \* DAL calls that may still be started
    pc,               \* per caller: where its DAL call stands
    local,            \* per caller: the locals of its call in flight
    last,             \* the last completed DAL call and what it returned
    ok_grants,        \* per transaction id: grant_entitlement calls that returned True
    ok_consumes,      \* per key: consume_assessment calls that returned True
    units_granted,    \* per key: assessments_purchased summed over the items put
    access_checked,   \* (user, module) pairs check_entitlement reported has_access for
    active_sessions,  \* lambda_speaking_handler.active_sessions
    open_sessions,    \* ids of the sessions that connected and were not closed
    sessions_table,   \* the sessions table written by the WebSocket handler
    events_left,      \* WebSocket events that may still arrive
    region_health,    \* GeminiRegionalRouter.region_health
    utcnow,           \* datetime.utcnow() as the router reads it, in minutes
    failures_in_row,  \* per region: mark_failure calls since the last mark_success
    router_last,      \* the last completed router call and what it returned
    router_calls_left, \* router calls that may still be made
    session,          \* the GeminiLiveSessionAWS of one conversation
    workflow,         \* its IELTSWorkflowManager
    parts_configured, \* the update_state_for_part calls made: part and model, in order
    seconds,          \* datetime.utcnow() as the session reads it, in seconds
    session_last,     \* the last completed session call and what it did
    session_calls_left \* session calls that may still be made

ledger_vars ==
    << table, clock, callers, observed, calls_left, pc, local, last,
       ok_grants, ok_consumes, units_granted, access_checked >>

handler_vars == << active_sessions, open_sessions, sessions_table, events_left >>

router_vars ==
    << region_health, utcnow, failures_in_row, router_last, router_calls_left >>

session_vars ==
    << session, workflow, parts_configured, seconds, session_last,
       session_calls_left >>

service_vars == << router_vars, session_vars >>

vars == << ledger_vars, handler_vars, service_vars >>

NoCall == [op |-> "none"]

\* ------------------------------------------------------------- the store
KeyOf(item) == << item.user_id, item.product_id >>

\* table.put_item(Item=item): an item with the same primary key is replaced
PutItem(tbl, item) == {e \in tbl : KeyOf(e) # KeyOf(item)} \cup {item}

\* table.update_item(Key=key, 'SET assessments_remaining, status,
\* last_used_assessment'): unconditional, no ConditionExpression.  Items are
\* never deleted, so the key a consume read is still there when it writes.
UpdateItem(tbl, key, remaining, status, assessment_id) ==
    {IF KeyOf(e) = key
        THEN [e EXCEPT !.assessments_remaining = remaining,
                       !.status = status,
                       !.last_used_assessment = assessment_id]
        ELSE e : e \in tbl}

RECURSIVE SortByProduct(_)
SortByProduct(S) ==
    IF S = {} THEN << >>
    ELSE LET first == CHOOSE e \in S :
                 \A f \in S \ {e} : LexLess(Text(e.product_id), Text(f.product_id))
         IN  << first >> \o SortByProduct(S \ {first})

\* table.query(KeyConditionExpression=Key('user_id').eq(user_id)): the items
\* of the partition, in ascending order of the sort key product_id
QueryUser(tbl, user_id) == SortByProduct({e \in tbl : e.user_id = user_id})

\* a lookup that compares the wrong attribute with the transaction id
get_entitlement_by_transaction_wrong_key(tbl, transaction_id) ==
    {e \in tbl : e.product_id = transaction_id}

\* table.query(IndexName='TransactionIndex', ...transaction_id.eq(...)) and
\* `items[0] if items else None`, as the set of items found
get_entitlement_by_transaction(tbl, transaction_id) ==
    {e \in tbl : e.transaction_id = transaction_id}

\* ------------------------------------------------------ EntitlementDAL
\* a match that looks at the status only
MatchesAnyProduct(ent, module_type) == ent.status = "active"

\* `status == 'active' and module_type in product_id.lower()`
Matches(ent, module_type) ==
    /\ ent.status = "active"
    /\ Contains(Text(module_type), Lower(Text(ent.product_id)))

\* the loop condition without its status and remaining-units tests
ConsumableUnguarded(ent, module_type) ==
    Contains(Text(module_type), Lower(Text(ent.product_id)))

\* the condition of the loop in consume_assessment
Consumable(ent, module_type) ==
    /\ Matches(ent, module_type)
    /\ ent.assessments_remaining > 0

\* the status test with >= for >
NewStatusOffByOne(new_remaining) ==
    IF new_remaining >= 0 THEN "active" ELSE "consumed"

\* `'active' if new_remaining > 0 else 'consumed'`
NewStatus(new_remaining) == IF new_remaining > 0 THEN "active" ELSE "consumed"

RECURSIVE SumRemaining(_)
SumRemaining(items) ==
    IF items = << >> THEN 0
    ELSE Head(items).assessments_remaining + SumRemaining(Tail(items))

\* what check_entitlement computes from the items of the user
check_entitlement(tbl, user_id, module_type) ==
    LET matching == SelectSeq(QueryUser(tbl, user_id),
                              LAMBDA e : Matches(e, module_type))
        total_remaining == SumRemaining(matching)
    IN  [has_access |-> total_remaining > 0,
         assessments_remaining |-> total_remaining,
         total_products |-> Len(matching)]

\* a loop that keeps going and ends on the last item that qualifies
LastConsumable(items, module_type) ==
    IF \E i \in 1..Len(items) : Consumable(items[i], module_type)
    THEN CHOOSE i \in 1..Len(items) :
            /\ Consumable(items[i], module_type)
            /\ \A j \in (i + 1)..Len(items) : ~Consumable(items[j], module_type)
    ELSE 0

\* index of the first item the loop of consume_assessment stops at, 0 if none
FirstConsumable(items, module_type) ==
    IF \E i \in 1..Len(items) : Consumable(items[i], module_type)
    THEN CHOOSE i \in 1..Len(items) :
            /\ Consumable(items[i], module_type)
            /\ \A j \in 1..(i - 1) : ~Consumable(items[j], module_type)
    ELSE 0

Return(w, call) ==
    /\ pc' = [pc EXCEPT ![w] = "idle"]
    /\ local' = [local EXCEPT ![w] = NoCall]
    /\ last' = IF "last" \in observed THEN call ELSE NoCall

\* Callers are interchangeable request handlers that keep nothing between
\* calls: a new call is taken by the first caller that is free.
StartCall(w) ==
    /\ w \in callers
    /\ pc[w] = "idle"
    /\ \A v \in callers : v < w => pc[v] # "idle"
    /\ calls_left > 0
    /\ calls_left' = calls_left - 1

\* grant_entitlement up to the lookup: the transaction_id check and
\* get_entitlement_by_transaction
GrantLookup(w, user_id, product_id, transaction_id) ==
    /\ StartCall(w)
    /\ LET call == [op |-> "grant", user_id |-> user_id, product_id |-> product_id,
                    transaction_id |-> transaction_id]
       IN  IF IsBlank(Text(transaction_id))
              \/ get_entitlement_by_transaction(table, transaction_id) # {}
           THEN Return(w, call @@ [result |-> FALSE])
           ELSE /\ pc' = [pc EXCEPT ![w] = "grant_put"]
                /\ local' = [local EXCEPT ![w] = call]
                /\ UNCHANGED last
    /\ UNCHANGED << table, clock, callers, observed, ok_grants, ok_consumes, units_granted,
                    access_checked, handler_vars, service_vars >>

\* grant_entitlement from the lookup on: the item is built and put
GrantPut(w) ==
    /\ pc[w] = "grant_put"
    /\ LET call == local[w]
           assessment_count == PRODUCT_ASSESSMENTS(call.product_id)
           entitlement_data ==
               [user_id |-> call.user_id,
                product_id |-> call.product_id,
                transaction_id |-> call.transaction_id,
                assessments_purchased |-> assessment_count,
                assessments_remaining |-> assessment_count,
                purchase_date |-> clock,
                status |-> "active",
                last_used_assessment |-> "none"]
       IN  /\ table' = PutItem(table, entitlement_data)
           /\ ok_grants' = [ok_grants EXCEPT ![call.transaction_id] = @ + 1]
           /\ units_granted' =
                  [units_granted EXCEPT ![KeyOf(entitlement_data)] = @ + assessment_count]
           /\ Return(w, call @@ [result |-> TRUE])
    /\ clock' = clock + 1
    /\ UNCHANGED << callers, observed, calls_left, ok_consumes, access_checked, handler_vars, service_vars >>

\* check_entitlement: one query, then a computation on its result
CheckEntitlement(w, user_id, module_type) ==
    /\ StartCall(w)
    /\ LET r == check_entitlement(table, user_id, module_type)
       IN  /\ Return(w, [op |-> "check", user_id |-> user_id,
                         module_type |-> module_type,
                         has_access |-> r.has_access,
                         assessments_remaining |-> r.assessments_remaining])
           /\ access_checked' =
                  IF r.has_access /\ "access" \in observed
                  THEN access_checked \cup {<< user_id, module_type >>}
                  ELSE access_checked
    /\ UNCHANGED << table, clock, callers, observed, ok_grants, ok_consumes, units_granted,
                    handler_vars, service_vars >>

\* consume_assessment up to the choice of the entitlement: the query and the loop
ConsumeQuery(w, user_id, module_type, assessment_id) ==
    /\ StartCall(w)
    /\ LET entitlements == QueryUser(table, user_id)
           i == FirstConsumable(entitlements, module_type)
           call == [op |-> "consume", user_id |-> user_id, module_type |-> module_type,
                    assessment_id |-> assessment_id]
       IN  IF i = 0
           THEN Return(w, call @@ [result |-> FALSE])
           ELSE /\ pc' = [pc EXCEPT ![w] = "consume_update"]
                /\ local' = [local EXCEPT ![w] =
                                call @@ [entitlements |-> entitlements, i |-> i]]
                /\ UNCHANGED last
    /\ UNCHANGED << table, clock, callers, observed, ok_grants, ok_consumes, units_granted,
                    access_checked, handler_vars, service_vars >>

\* consume_assessment from the choice on: update_item with the values computed
\* from the item as it was read
ConsumeUpdate(w) ==
    /\ pc[w] = "consume_update"
    /\ LET call == local[w]
           ent == call.entitlements[call.i]
           new_remaining == ent.assessments_remaining - 1
           new_status == NewStatus(new_remaining)
           key == << call.user_id, ent.product_id >>
       IN  /\ table' = UpdateItem(table, key, new_remaining, new_status,
                                  call.assessment_id)
           /\ ok_consumes' = [ok_consumes EXCEPT ![key] = @ + 1]
           /\ Return(w, [op |-> "consume", user_id |-> call.user_id,
                         module_type |-> call.module_type,
                         assessment_id |-> call.assessment_id,
                         product_id |-> ent.product_id,
                         new_remaining |-> new_remaining,
                         result |-> TRUE])
    /\ UNCHANGED << clock, callers, observed, calls_left, ok_grants, units_granted,
                    access_checked, handler_vars, service_vars >>

\* ------------------------------------------------- store errors in the DAL
\* A boto3 call of the table may raise (ClientError, a network error).  Each
\* action below is the part of a method in which one of its store calls
\* raises; the outcome is what the method's `except Exception` makes of it.
\* No method of the DAL calls the store a second time after an error, and
\* none re-raises: `raised` is FALSE in every outcome.

\* grant_entitlement when the query of get_entitlement_by_transaction raises:
\* the helper catches the error and returns None, so `existing` is falsy and
\* the grant goes on to build and put the item
GrantLookupStoreError(w, user_id, product_id, transaction_id) ==
    /\ StartCall(w)
    /\ ~IsBlank(Text(transaction_id))
    /\ pc' = [pc EXCEPT ![w] = "grant_put"]
    /\ local' = [local EXCEPT ![w] =
                    [op |-> "grant", user_id |-> user_id, product_id |-> product_id,
                     transaction_id |-> transaction_id, lookup_failed |-> TRUE]]
    /\ UNCHANGED << table, clock, callers, observed, last, ok_grants, ok_consumes,
                    units_granted, access_checked, handler_vars, service_vars >>

\* grant_entitlement when put_item raises: nothing is written, `return False`
GrantPutStoreError(w) ==
    /\ pc[w] = "grant_put"
    /\ Return(w, local[w] @@ [result |-> FALSE, store_error |-> TRUE, raised |-> FALSE])
    /\ UNCHANGED << table, clock, callers, observed, calls_left, ok_grants, ok_consumes,
                    units_granted, access_checked, handler_vars, service_vars >>

\* check_entitlement when its query raises: the no-access result is returned
CheckEntitlementStoreError(w, user_id, module_type) ==
    /\ StartCall(w)
    /\ Return(w, [op |-> "check", user_id |-> user_id, module_type |-> module_type,
                  has_access |-> FALSE, assessments_remaining |-> 0,
                  store_error |-> TRUE, raised |-> FALSE])
    /\ UNCHANGED << table, clock, callers, observed, ok_grants, ok_consumes, units_granted,
                    access_checked, handler_vars, service_vars >>

\* consume_assessment when its query raises: `return False`
ConsumeQueryStoreError(w, user_id, module_type, assessment_id) ==
    /\ StartCall(w)
    /\ Return(w, [op |-> "consume", user_id |-> user_id, module_type |-> module_type,
                  assessment_id |-> assessment_id, result |-> FALSE,
                  store_error |-> TRUE, raised |-> FALSE])
    /\ UNCHANGED << table, clock, callers, observed, ok_grants, ok_consumes, units_granted,
                    access_checked, handler_vars, service_vars >>

\* consume_assessment when update_item raises: nothing is written, `return False`
ConsumeUpdateStoreError(w) ==
    /\ pc[w] = "consume_update"
    /\ Return(w, [op |-> "consume", user_id |-> local[w].user_id,
                  module_type |-> local[w].module_type,
                  assessment_id |-> local[w].assessment_id, result |-> FALSE,
                  store_error |-> TRUE, raised |-> FALSE])
    /\ UNCHANGED << table, clock, callers, observed, calls_left, ok_grants, ok_consumes,
                    units_granted, access_checked, handler_vars, service_vars >>

\* get_user_entitlements: the items of the user's partition
GetUserEntitlements(w, user_id) ==
    /\ StartCall(w)
    /\ Return(w, [op |-> "list", user_id |-> user_id,
                  items |-> QueryUser(table, user_id)])
    /\ UNCHANGED << table, clock, callers, observed, ok_grants, ok_consumes, units_granted,
                    access_checked, handler_vars, service_vars >>

\* get_user_entitlements when its query raises: `return []`
GetUserEntitlementsStoreError(w, user_id) ==
    /\ StartCall(w)
    /\ Return(w, [op |-> "list", user_id |-> user_id, items |-> << >>,
                  store_error |-> TRUE, raised |-> FALSE])
    /\ UNCHANGED << table, clock, callers, observed, ok_grants, ok_consumes, units_granted,
                    access_checked, handler_vars, service_vars >>

LedgerInit(cs, obs, n) ==
    /\ table = {}
    /\ observed = obs
    /\ clock = 1
    /\ callers = cs
    /\ calls_left = n
    /\ pc = [w \in Workers |-> "idle"]
    /\ local = [w \in Workers |-> NoCall]
    /\ last = NoCall
    /\ ok_grants = [t \in TransactionIds |-> 0]
    /\ ok_consumes = [k \in Keys |-> 0]
    /\ units_granted = [k \in Keys |-> 0]
    /\ access_checked = {}

\* -------------------------------------------- lambda_speaking_handler
NoItem == [status |-> "none", user_id |-> "none", session_status |-> "none"]

\* no entry of active_sessions for a connection id
NoSession == [cached |-> FALSE]

\* a GeminiLiveSessionAWS as the handler caches it after connect(); id tells
\* the session objects apart
OpenSession(id) == [cached |-> TRUE, is_connected |-> TRUE, id |-> id]

Event(c) ==
    /\ events_left > 0
    /\ events_left' = events_left - 1

\* handle_connect: the connection is stored in the sessions table
HandleConnect(c) ==
    /\ Event(c)
    /\ sessions_table' = [sessions_table EXCEPT ![c] =
                             [NoItem EXCEPT !.status = "connected"]]
    /\ UNCHANGED << active_sessions, open_sessions, ledger_vars, service_vars >>

\* session.close() as the handler sees it: the session stops being open
Closed(c) == open_sessions \ {active_sessions[c].id}

\* handle_disconnect: a cached session is closed and dropped, the item
\* deleted.  When close() raises (close_ok is FALSE) the handler answers 500
\* and neither drops the session nor deletes the item.
HandleDisconnect(c, close_ok) ==
    /\ Event(c)
    /\ IF active_sessions[c] = NoSession
       THEN /\ sessions_table' = [sessions_table EXCEPT ![c] = NoItem]
            /\ UNCHANGED << active_sessions, open_sessions >>
       ELSE IF close_ok
       THEN /\ open_sessions' = Closed(c)
            /\ active_sessions' = [active_sessions EXCEPT ![c] = NoSession]
            /\ sessions_table' = [sessions_table EXCEPT ![c] = NoItem]
       ELSE UNCHANGED << active_sessions, open_sessions, sessions_table >>
    /\ UNCHANGED << ledger_vars, service_vars >>

\* handle_start_speaking: the service is built and the conversation started
\* (connect_ok: whether session.connect() succeeded), the session is cached and
\* the sessions table updated.  The entry of active_sessions is assigned
\* whatever it held.  No call of EntitlementDAL is made.
HandleStartSpeaking(c, user_id, connect_ok) ==
    /\ Event(c)
    /\ IF connect_ok
       THEN /\ active_sessions' = [active_sessions EXCEPT ![c] = OpenSession(events_left)]
            /\ open_sessions' = open_sessions \cup {events_left}
            /\ sessions_table' = [sessions_table EXCEPT ![c] =
                                     [@ EXCEPT !.user_id = user_id,
                                               !.session_status = "active"]]
       ELSE UNCHANGED << active_sessions, open_sessions, sessions_table >>
    /\ UNCHANGED << ledger_vars, service_vars >>

\* handle_audio_chunk: the chunk is sent on the cached session
HandleAudioChunk(c) ==
    /\ Event(c)
    /\ active_sessions[c] # NoSession
    /\ UNCHANGED << active_sessions, open_sessions, sessions_table, ledger_vars, service_vars >>

\* handle_end_speaking: the session is closed and dropped, the result stored.
\* When close() raises the handler answers 500 and keeps the session.
\* No call of EntitlementDAL is made.
HandleEndSpeaking(c, close_ok) ==
    /\ Event(c)
    /\ active_sessions[c] # NoSession
    /\ IF close_ok
       THEN /\ open_sessions' = Closed(c)
            /\ active_sessions' = [active_sessions EXCEPT ![c] = NoSession]
            /\ sessions_table' = [sessions_table EXCEPT ![c] =
                                     [@ EXCEPT !.session_status = "completed"]]
       ELSE UNCHANGED << active_sessions, open_sessions, sessions_table >>
    /\ UNCHANGED << ledger_vars, service_vars >>

HandlerInit(n) ==
    /\ active_sessions = [c \in Connections |-> NoSession]
    /\ open_sessions = {}
    /\ sessions_table = [c \in Connections |-> NoItem]
    /\ events_left = n

\* ------------------------------------------------ GeminiRegionalRouter
\* three of the 21 regions of VERTEX_AI_REGIONS: the default region, the
\* region 'SG' maps to and the region 'GB' maps to
CatalogRegions == {"us-central1", "asia-southeast1", "europe-west2"}

\* region arguments: the catalog and a name that is not in it
RegionNames == CatalogRegions \cup {"mars-1"}

\* country_code arguments; "None" stands for None
CountryCodes == {"None", "SG", "sg", "ZZ"}

\* preferred_region arguments; "None" stands for None
PreferredRegions == {"None", "europe-west2", "asia-southeast1", "mars-1"}

Latencies == {20}

\* VERTEX_AI_REGIONS[region]['latency_base']
latency_base(region) ==
    CASE region = "us-central1" -> 50
      [] region = "asia-southeast1" -> 35
      [] region = "europe-west2" -> 50

\* country_code.upper()
Upper(code) == IF code = "sg" THEN "SG" ELSE code

\* COUNTRY_TO_REGION.get(code)
COUNTRY_TO_REGION(code) ==
    CASE code = "SG" -> "asia-southeast1"
      [] code = "GB" -> "europe-west2"
      [] OTHER -> "None"

default_region == "us-central1"

\* `failure_count >= 5`
FailureLimit == 5

\* timedelta(minutes=30)
StaleMinutes == 30

\* a staleness test that never fires
is_region_healthy_no_staleness(health, t, region) ==
    IF region \notin DOMAIN health THEN FALSE
    ELSE IF health[region].failure_count >= FailureLimit THEN FALSE
    ELSE health[region].status = "healthy"

\* _is_region_healthy, with t the value of datetime.utcnow()
is_region_healthy(health, t, region) ==
    IF region \notin DOMAIN health THEN FALSE
    ELSE IF health[region].failure_count >= FailureLimit THEN FALSE
    ELSE IF t - health[region].last_success > StaleMinutes THEN FALSE
    ELSE health[region].status = "healthy"

\* a mark_failure that does not count
mark_failure_uncounted(health, region) == health

\* mark_failure: the region_health it leaves
mark_failure(health, region) ==
    IF region \in DOMAIN health
    THEN LET failure_count == health[region].failure_count + 1
         IN  [health EXCEPT ![region] =
                 [@ EXCEPT !.failure_count = failure_count,
                           !.status = IF failure_count >= FailureLimit
                                      THEN "unhealthy" ELSE @]]
    ELSE health

\* mark_success: the region_health it leaves
mark_success(health, t, region, latency_ms) ==
    IF region \in DOMAIN health
    THEN [health EXCEPT ![region] =
             [status |-> "healthy", last_success |-> t, failure_count |-> 0,
              latency_ms |-> latency_ms]]
    ELSE health

\* a selection that tries the country code before the preferred region
get_optimal_region_country_first(health, t, country_code, preferred_region) ==
    LET mapped_region == COUNTRY_TO_REGION(Upper(country_code))
    IN  IF country_code # "None" /\ mapped_region # "None"
           /\ is_region_healthy(health, t, mapped_region)
        THEN {mapped_region}
        ELSE IF preferred_region # "None" /\ preferred_region \in CatalogRegions
                /\ is_region_healthy(health, t, preferred_region)
        THEN {preferred_region}
        ELSE {default_region}

\* a selection without the search for any healthy region
get_optimal_region_no_fallback(health, t, country_code, preferred_region) ==
    LET mapped_region == COUNTRY_TO_REGION(Upper(country_code))
    IN  IF preferred_region # "None" /\ preferred_region \in CatalogRegions
           /\ is_region_healthy(health, t, preferred_region)
        THEN {preferred_region}
        ELSE IF country_code # "None" /\ mapped_region # "None"
                /\ is_region_healthy(health, t, mapped_region)
        THEN {mapped_region}
        ELSE {default_region}

\* get_optimal_region: the regions it may return (one, except where
\* random.choice picks among the healthy regions).  _detect_region_from_ip
\* returns None for every ip_address, so priority 3 never selects.
get_optimal_region(health, t, country_code, preferred_region) ==
    LET mapped_region == COUNTRY_TO_REGION(Upper(country_code))
        healthy_regions == {r \in CatalogRegions : is_region_healthy(health, t, r)}
    IN  IF preferred_region # "None" /\ preferred_region \in CatalogRegions
           /\ is_region_healthy(health, t, preferred_region)
        THEN {preferred_region}
        ELSE IF country_code # "None" /\ mapped_region # "None"
                /\ is_region_healthy(health, t, mapped_region)
        THEN {mapped_region}
        ELSE IF is_region_healthy(health, t, default_region)
        THEN {default_region}
        ELSE IF healthy_regions # {}
        THEN healthy_regions
        ELSE {default_region}

RouterCall ==
    /\ router_calls_left > 0
    /\ router_calls_left' = router_calls_left - 1

MarkFailure(region) ==
    /\ RouterCall
    /\ region_health' = mark_failure(region_health, region)
    /\ failures_in_row' =
           [failures_in_row EXCEPT ![region] = @ + 1]
    /\ router_last' = [op |-> "mark_failure", region |-> region]
    /\ UNCHANGED << utcnow, ledger_vars, handler_vars, session_vars >>

MarkSuccess(region, latency_ms) ==
    /\ RouterCall
    /\ region_health' = mark_success(region_health, utcnow, region, latency_ms)
    /\ failures_in_row' = [failures_in_row EXCEPT ![region] = 0]
    /\ router_last' = [op |-> "mark_success", region |-> region,
                       failures_ended |-> failures_in_row[region]]
    /\ UNCHANGED << utcnow, ledger_vars, handler_vars, session_vars >>

GetOptimalRegion(country_code, preferred_region) ==
    /\ RouterCall
    /\ \E r \in get_optimal_region(region_health, utcnow, country_code,
                                    preferred_region) :
           router_last' = [op |-> "get_optimal_region", region |-> r]
    /\ UNCHANGED << region_health, utcnow, failures_in_row, ledger_vars,
                    handler_vars, session_vars >>

\* time passes between two router calls
Elapse(minutes) ==
    /\ utcnow + minutes <= MaxMinutes
    /\ utcnow' = utcnow + minutes
    /\ UNCHANGED << region_health, failures_in_row, router_last,
                    router_calls_left, ledger_vars, handler_vars, session_vars >>

\* __init__ and _initialize_health_status, at minute 0
RouterInit(n) ==
    /\ region_health =
           [r \in CatalogRegions |->
               [status |-> "healthy", last_success |-> 0, failure_count |-> 0,
                latency_ms |-> latency_base(r)]]
    /\ utcnow = 0
    /\ failures_in_row = [r \in RegionNames |-> 0]
    /\ router_last = NoCall
    /\ router_calls_left = n

\* ------------------------------------------------ IELTSWorkflowManager
\* ielts_workflow_manager.py is not part of the sources at hand; the workflow
\* manager is modelled from sections 4.3 and 4.4 of the specification and from
\* the calls and tests that use it.

\* part2_duration values, in seconds
Durations == {0, 61}

\* part2_complexity_score values: none and a high score of the tests
ComplexityScores == {0, 8}

\* the Part-2 duration a Part 3 on the higher tier needs to exceed
DurationThreshold == 60

\* the complexity score a Part 3 on the higher tier needs to exceed: between
\* the low and the high score of the tests
ComplexityThreshold == 5

\* the model update_state_for_part chooses for a part
model_for_part(part, part2_duration, part2_complexity_score) ==
    IF /\ part = 3
       /\ part2_duration > DurationThreshold
       /\ part2_complexity_score > ComplexityThreshold
    THEN "flash"
    ELSE "flash-lite"

\* IELTSWorkflowManager(): nothing tracked, no Part-2 signals
NewWorkflow ==
    [current_part |-> 1, part2_duration |-> 0, part2_complexity_score |-> 0,
     tracked |-> 0]

\* update_state_for_part(part): the state it leaves
update_state_for_part(wf, part) == [wf EXCEPT !.current_part = part]

\* track_response(role, content): the state it leaves
track_response(wf) == [wf EXCEPT !.tracked = @ + 1]

\* ------------------------------------------------- GeminiLiveSessionAWS
\* no session has been created
NoLiveSession == [created |-> FALSE]

\* self.session before connect().  A connection handle carries the model it
\* was opened for and its number among the connections the session opened.
NoHandle == [open |-> FALSE, model |-> "none", id |-> 0]

\* text arguments of send_text
Texts == {"fine", "offensive"}

\* the content_moderation_callback of the caller: True lets the text pass
content_moderation_callback(text) == text # "offensive"

\* what the remote service does during one session call
RemoteOutcomes == {"ok", "send_fails", "close_fails", "open_fails"}

\* self.lambda_timeout_warning_seconds
lambda_timeout_warning_seconds == 840

\* _check_lambda_timeout, with t the value of datetime.utcnow()
check_lambda_timeout(sess, t) ==
    t - sess.start_time > lambda_timeout_warning_seconds

\* a running call: the session, the workflow, the parts configured, the
\* region_health of the shared router, the messages posted to the WebSocket,
\* what went to the remote service (inputs forwarded, connections attempted,
\* connections closed, whether one of these calls failed), what was reported
\* to the router and how the call ended
Running(sess, wf, cfg) ==
    [session |-> sess, workflow |-> wf, cfg |-> cfg, health |-> region_health,
     posted |-> << >>, forwarded |-> 0, attempts |-> 0, closes |-> 0,
     remote_error |-> FALSE, reported |-> << >>, notified |-> 0,
     raised |-> FALSE, result |-> "None"]

\* send_websocket_message: posted only with an API Gateway client and a
\* connection id (there is no client without a connection id)
send_websocket_message(run, type) ==
    IF run.session.apigw_client
    THEN [run EXCEPT !.posted = Append(@, type)]
    ELSE run

\* a switch that leaves self.model_id as it was
switch_model_keeps_model(run, new_model, new_prompt, remote) ==
    LET sess == run.session
    IN  IF ~sess.is_connected THEN run
        ELSE send_websocket_message(
                 [run EXCEPT !.session =
                     [sess EXCEPT !.prompt = new_prompt,
                                  !.session = [open |-> TRUE, model |-> sess.model_id,
                                               id |-> sess.session.id + 1],
                                  !.messages_in_current_part = 0],
                          !.attempts = @ + 1, !.closes = @ + 1],
                 "model_switched")

\* a switch that starts the new connection with an empty transcript
switch_model_resets_transcript(run, new_model, new_prompt, remote) ==
    LET sess == run.session
    IN  IF ~sess.is_connected THEN run
        ELSE send_websocket_message(
                 [run EXCEPT !.session =
                     [sess EXCEPT !.prompt = new_prompt,
                                  !.model_id = new_model,
                                  !.session = [open |-> TRUE, model |-> new_model,
                                               id |-> sess.session.id + 1],
                                  !.conversation_transcript = << >>,
                                  !.messages_in_current_part = 0],
                             !.closes = @ + 1, !.attempts = @ + 1],
                 "model_switched")

\* a switch that logs an error of the remote service and returns
switch_model_swallows_error(run, new_model, new_prompt, remote) ==
    LET sess == run.session
    IN  IF ~sess.is_connected THEN run
        ELSE IF remote \in {"close_fails", "open_fails"}
        THEN [run EXCEPT !.session.prompt = new_prompt, !.closes = @ + 1,
                         !.remote_error = TRUE]
        ELSE send_websocket_message(
                 [run EXCEPT !.session =
                     [sess EXCEPT !.prompt = new_prompt,
                                  !.model_id = new_model,
                                  !.session = [open |-> TRUE, model |-> new_model,
                                               id |-> sess.session.id + 1],
                                  !.messages_in_current_part = 0],
                             !.closes = @ + 1, !.attempts = @ + 1],
                 "model_switched")

\* switch_model: the prompt is set, the current connection closed, model_id
\* set and a new connection opened; an error of the remote service is raised
\* from the point it occurs at
switch_model(run, new_model, new_prompt, remote) ==
    LET sess == run.session
    IN  IF ~sess.is_connected THEN run
        ELSE IF sess.session # NoHandle /\ remote = "close_fails"
        THEN [run EXCEPT !.session.prompt = new_prompt, !.closes = @ + 1,
                         !.remote_error = TRUE, !.raised = TRUE]
        ELSE IF remote = "open_fails"
        THEN [run EXCEPT !.session =
                 [sess EXCEPT !.prompt = new_prompt,
                              !.session.open = FALSE,
                              !.model_id = new_model],
                         !.closes = @ + 1, !.attempts = @ + 1,
                         !.remote_error = TRUE, !.raised = TRUE]
        ELSE send_websocket_message(
                 [run EXCEPT !.session =
                     [sess EXCEPT !.prompt = new_prompt,
                                  !.model_id = new_model,
                                  !.session = [open |-> TRUE, model |-> new_model,
                                               id |-> sess.session.id + 1],
                                  !.messages_in_current_part = 0],
                             !.closes = @ + 1, !.attempts = @ + 1],
                 "model_switched")

\* a next part that is the current part
next_part_same(wf) == wf.current_part

\* `next_part = self.workflow_manager.state.current_part + 1`
next_part(wf) == wf.current_part + 1

\* check_and_transition_parts; should_transition is what
\* workflow_manager.should_transition() answers
check_and_transition_parts(run, t, should_transition, remote) ==
    IF check_lambda_timeout(run.session, t)
    THEN [send_websocket_message(run, "timeout_warning") EXCEPT !.result = "False"]
    ELSE IF should_transition /\ next_part(run.workflow) <= 3
    THEN LET n == next_part(run.workflow)
             wf == update_state_for_part(run.workflow, n)
             model == model_for_part(n, wf.part2_duration, wf.part2_complexity_score)
             configured ==
                 [run EXCEPT !.workflow = wf,
                             !.cfg = Append(@, [part |-> n, model |-> model])]
             switched == switch_model(configured, model, n, remote)
         IN  IF switched.raised THEN switched
             ELSE [send_websocket_message(
                       [switched EXCEPT !.notified =
                           IF switched.session.on_text_response THEN @ + 1 ELSE @],
                       "part_transition")
                   EXCEPT !.result = "True"]
    ELSE [run EXCEPT !.result = "False"]

\* the workflow after track_response on a candidate input: in Part 2 the
\* manager also holds the Part-2 signals it has gathered so far
Tracked(wf, signals) ==
    IF wf.current_part = 2
    THEN [track_response(wf) EXCEPT !.part2_duration = signals[1],
                                    !.part2_complexity_score = signals[2]]
    ELSE track_response(wf)

\* a send_text that tracks the text before it asks the moderation callback
send_text_unmoderated(run, text, t, should_transition, remote, signals) ==
    LET sess == run.session
    IN  IF ~sess.is_connected \/ sess.session = NoHandle
        THEN [run EXCEPT !.raised = TRUE]
        ELSE LET tracked ==
                     [run EXCEPT
                         !.workflow = Tracked(run.workflow, signals),
                         !.session.messages_in_current_part = @ + 1,
                         !.session.conversation_transcript =
                             Append(@, [role |-> "candidate", content |-> text,
                                        part |-> run.workflow.current_part])]
             IN  IF sess.moderated /\ ~content_moderation_callback(text)
                 THEN tracked
                 ELSE [tracked EXCEPT !.forwarded = 1]

\* send_text.  The timestamp of a transcript entry is left out.  A send on a
\* connection that was closed, or that the remote service fails, raises.
send_text(run, text, t, should_transition, remote, signals) ==
    LET sess == run.session
    IN  IF ~sess.is_connected \/ sess.session = NoHandle
        THEN [run EXCEPT !.raised = TRUE]
        ELSE IF sess.moderated /\ ~content_moderation_callback(text)
        THEN run
        ELSE LET tracked ==
                     [run EXCEPT
                         !.workflow = Tracked(run.workflow, signals),
                         !.session.messages_in_current_part = @ + 1,
                         !.session.conversation_transcript =
                             Append(@, [role |-> "candidate", content |-> text,
                                        part |-> run.workflow.current_part])]
             IN  IF remote = "send_fails" \/ ~sess.session.open
                 THEN [tracked EXCEPT !.remote_error = TRUE, !.raised = TRUE]
                 ELSE [check_and_transition_parts(
                           [tracked EXCEPT !.forwarded = 1], t, should_transition,
                           remote)
                       EXCEPT !.result = "None"]

\* a send_audio that returns once the audio is forwarded
send_audio_no_check(run, t, should_transition, remote, signals) ==
    LET sess == run.session
    IN  IF ~sess.is_connected \/ sess.session = NoHandle
        THEN [run EXCEPT !.raised = TRUE]
        ELSE [run EXCEPT !.workflow = Tracked(run.workflow, signals),
                         !.session.messages_in_current_part = @ + 1,
                         !.forwarded = 1]

\* send_audio: as send_text without moderation and transcript; an error is
\* also posted to the WebSocket before it is raised
send_audio(run, t, should_transition, remote, signals) ==
    LET sess == run.session
    IN  IF ~sess.is_connected \/ sess.session = NoHandle
        THEN [run EXCEPT !.raised = TRUE]
        ELSE LET tracked ==
                     [run EXCEPT
                         !.workflow = Tracked(run.workflow, signals),
                         !.session.messages_in_current_part = @ + 1]
                 done ==
                     IF remote = "send_fails" \/ ~sess.session.open
                     THEN [tracked EXCEPT !.remote_error = TRUE, !.raised = TRUE]
                     ELSE [check_and_transition_parts(
                               [tracked EXCEPT !.forwarded = 1], t,
                               should_transition, remote)
                           EXCEPT !.result = "None"]
             IN  IF done.raised THEN send_websocket_message(done, "error") ELSE done

SessionCall ==
    /\ session_calls_left > 0
    /\ session_calls_left' = session_calls_left - 1

\* a session call that ran as `run` is over
Finish(op, text, run) ==
    /\ session' = run.session
    /\ workflow' = run.workflow
    /\ parts_configured' = run.cfg
    /\ region_health' = run.health
    /\ session_last' = [op |-> op, text |-> text,
                        raised |-> run.raised, result |-> run.result,
                        posted |-> run.posted, forwarded |-> run.forwarded,
                        attempts |-> run.attempts, closes |-> run.closes,
                        remote_error |-> run.remote_error,
                        reported |-> run.reported, notified |-> run.notified]
    /\ UNCHANGED << seconds, utcnow, failures_in_row, router_last, router_calls_left,
                    ledger_vars, handler_vars >>

\* GeminiLiveServiceAWS(country_code, auto_regional_routing=True) and
\* start_maya_conversation_smart: the region is selected on the shared
\* router, a new workflow manager is configured for Part 1, and a session is
\* built on its model and connected; connect() starts the response handler
\* on the connection it opened.  The API Gateway client exists when a
\* connection id is given and APIGW_ENDPOINT is set.
StartConversation(country_code, websocket_connection_id, apigw_endpoint, moderated, on_text_response, on_audio_response, remote) ==
    /\ SessionCall
    /\ session = NoLiveSession
    /\ \E region \in get_optimal_region(region_health, utcnow, country_code, "None") :
       LET wf == update_state_for_part(NewWorkflow, 1)
           model == model_for_part(1, wf.part2_duration, wf.part2_complexity_score)
           built ==
               [created |-> TRUE,
                model_id |-> model,
                prompt |-> 1,
                session |-> NoHandle,
                is_connected |-> FALSE,
                response_task |-> 0,
                region |-> region,
                conversation_transcript |-> << >>,
                messages_in_current_part |-> 0,
                start_time |-> seconds,
                apigw_client |-> websocket_connection_id /\ apigw_endpoint,
                moderated |-> moderated,
                on_text_response |-> on_text_response,
                on_audio_response |-> on_audio_response]
           run == [Running(built, wf, << [part |-> 1, model |-> model] >>)
                   EXCEPT !.attempts = 1]
       IN  IF remote = "open_fails"
           THEN Finish("start", "none", [send_websocket_message(run, "error")
                                 EXCEPT !.remote_error = TRUE, !.raised = TRUE])
           ELSE Finish("start", "none",
                       send_websocket_message(
                           [run EXCEPT !.session.session =
                                           [open |-> TRUE, model |-> model, id |-> 1],
                                       !.session.is_connected = TRUE,
                                       !.session.response_task = 1],
                           "connection_established"))

SendText(text, should_transition, remote, signals) ==
    /\ SessionCall
    /\ session # NoLiveSession
    /\ Finish("send_text", text,
              send_text(Running(session, workflow, parts_configured), text,
                        seconds, should_transition, remote, signals))

SendAudio(should_transition, remote, signals) ==
    /\ SessionCall
    /\ session # NoLiveSession
    /\ Finish("send_audio", "none",
              send_audio(Running(session, workflow, parts_configured),
                         seconds, should_transition, remote, signals))

CheckAndTransitionParts(should_transition, remote) ==
    /\ SessionCall
    /\ session # NoLiveSession
    /\ Finish("check_and_transition_parts", "none",
              check_and_transition_parts(
                  Running(session, workflow, parts_configured), seconds,
                  should_transition, remote))

\* a direct call of switch_model
SwitchModel(new_model, new_prompt, remote) ==
    /\ SessionCall
    /\ session # NoLiveSession
    /\ Finish("switch_model", "none",
              switch_model(Running(session, workflow, parts_configured),
                           new_model, new_prompt, remote))

\* `latency_ms = (assessment_duration * 1000) / 10 if assessment_duration > 0
\* else 100`, with the duration of the summary taken as the seconds since
\* start_time
close_latency_ms(duration) == IF duration > 0 THEN duration * 100 ELSE 100

\* close, with t the seconds and now the router's minutes of
\* datetime.utcnow(): when self.session is set, mark_success is reported
\* for the region, assessment_complete is posted, the response task is
\* cancelled and the connection closed; is_connected is cleared unless the
\* remote close raised.  self.session stays set after the call.
close(run, t, now, remote) ==
    LET sess == run.session
    IN  IF sess.session = NoHandle
        THEN [run EXCEPT !.session.is_connected = FALSE]
        ELSE LET told ==
                     send_websocket_message(
                         [run EXCEPT
                             !.health = mark_success(@, now, sess.region,
                                            close_latency_ms(t - sess.start_time)),
                             !.reported = Append(@, "mark_success"),
                             !.session.response_task = 0],
                         "assessment_complete")
             IN  IF remote = "close_fails"
                 THEN [told EXCEPT !.closes = @ + 1, !.remote_error = TRUE,
                                   !.raised = TRUE]
                 ELSE [told EXCEPT !.closes = @ + 1,
                                   !.session.session.open = FALSE,
                                   !.session.is_connected = FALSE]

Close(remote) ==
    /\ SessionCall
    /\ session # NoLiveSession
    /\ Finish("close", "none",
              close(Running(session, workflow, parts_configured), seconds, utcnow,
                    remote))

\* one pass of the loop of _handle_responses over a fragment of this kind:
\* a text is tracked, added to the transcript, given to on_text_response and
\* posted; audio is given to on_audio_response and posted (audio_buffer is
\* left out)
handle_response(run, kind) ==
    IF kind = "text"
    THEN send_websocket_message(
             [run EXCEPT
                 !.workflow = track_response(@),
                 !.session.conversation_transcript =
                     Append(@, [role |-> "maya", content |-> "reply",
                                part |-> run.workflow.current_part]),
                 !.notified = IF run.session.on_text_response THEN @ + 1 ELSE @,
                 !.result = "delivered"],
             "text_response")
    ELSE send_websocket_message(
             [run EXCEPT
                 !.notified = IF run.session.on_audio_response THEN @ + 1 ELSE @,
                 !.result = "delivered"],
             "audio_response")

\* The remote service emits a fragment on the current connection of a
\* connected session.  The response task was created by connect() and
\* iterates over receive() of the connection connect() opened; no other
\* statement of the class creates a task or calls receive().  A fragment on
\* a connection no task reads has no reader later either.
RemoteEmits(kind) ==
    /\ SessionCall
    /\ session # NoLiveSession
    /\ session.is_connected
    /\ session.session.open
    /\ LET run == Running(session, workflow, parts_configured)
       IN  IF session.response_task = session.session.id
           THEN Finish("emit", kind, handle_response(run, kind))
           ELSE Finish("emit", kind, [run EXCEPT !.result = "lost"])

\* time passes between two calls on the session
Wait(secs) ==
    /\ session # NoLiveSession
    /\ seconds + secs <= MaxSeconds
    /\ seconds' = seconds + secs
    /\ UNCHANGED << session, workflow, parts_configured, session_last,
                    session_calls_left, ledger_vars, handler_vars, router_vars >>

SessionInit(n) ==
    /\ session = NoLiveSession
    /\ workflow = NewWorkflow
    /\ parts_configured = << >>
    /\ seconds = 0
    /\ session_last = NoCall
    /\ session_calls_left = n

Init == LedgerInit(Workers, {}, MaxCalls) /\ HandlerInit(0) /\ RouterInit(0) /\ SessionInit(0)

InitSeq == LedgerInit({1}, {"last"}, MaxSeqCalls) /\ HandlerInit(0) /\ RouterInit(0) /\ SessionInit(0)

InitFaults ==
    LedgerInit({1}, {"last"}, MaxFaultCalls) /\ HandlerInit(0) /\ RouterInit(0) /\ SessionInit(0)

InitHandler ==
    LedgerInit({1}, {"access"}, MaxHandlerCalls) /\ HandlerInit(MaxEvents) /\ RouterInit(0) /\ SessionInit(0)

InitRouter ==
    LedgerInit({1}, {}, 0) /\ HandlerInit(0) /\ RouterInit(MaxRouterCalls) /\ SessionInit(0)

InitLifecycle ==
    LedgerInit({1}, {}, 0) /\ HandlerInit(0) /\ RouterInit(0) /\ SessionInit(MaxLifecycleCalls)

InitSession ==
    LedgerInit({1}, {}, 0) /\ HandlerInit(0) /\ RouterInit(0) /\ SessionInit(MaxSessionCalls)

Next ==
    \/ \E w \in Workers, u \in Users, p \in Products, t \in TransactionIds :
           GrantLookup(w, u, p, t)
    \/ \E w \in Workers : GrantPut(w)
    \/ \E w \in Workers, u \in Users, m \in ModuleTypes : CheckEntitlement(w, u, m)
    \/ \E w \in Workers, u \in Users, m \in ModuleTypes, a \in AssessmentIds :
           ConsumeQuery(w, u, m, a)
    \/ \E w \in Workers : ConsumeUpdate(w)

\* the ledger with a store whose calls may raise
NextFaults ==
    \/ Next
    \/ \E w \in Workers, u \in Users, p \in Products, t \in TransactionIds :
           GrantLookupStoreError(w, u, p, t)
    \/ \E w \in Workers : GrantPutStoreError(w)
    \/ \E w \in Workers, u \in Users, m \in ModuleTypes :
           CheckEntitlementStoreError(w, u, m)
    \/ \E w \in Workers, u \in Users, m \in ModuleTypes, a \in AssessmentIds :
           ConsumeQueryStoreError(w, u, m, a)
    \/ \E w \in Workers : ConsumeUpdateStoreError(w)
    \/ \E w \in Workers, u \in Users : GetUserEntitlements(w, u)
    \/ \E w \in Workers, u \in Users : GetUserEntitlementsStoreError(w, u)

NextHandler ==
    \/ Next
    \/ \E c \in Connections : HandleConnect(c)
    \/ \E c \in Connections, ok \in BOOLEAN : HandleDisconnect(c, ok)
    \/ \E c \in Connections, u \in Users, ok \in BOOLEAN : HandleStartSpeaking(c, u, ok)
    \/ \E c \in Connections : HandleAudioChunk(c)
    \/ \E c \in Connections, ok \in BOOLEAN : HandleEndSpeaking(c, ok)

NextRouter ==
    \/ \E r \in RegionNames : MarkFailure(r)
    \/ \E r \in RegionNames, l \in Latencies : MarkSuccess(r, l)
    \/ \E c \in CountryCodes, p \in PreferredRegions : GetOptimalRegion(c, p)
    \/ \E m \in {15, 16} : Elapse(m)

\* the Part-2 signals the manager may hold after an input; they only count
\* for an input in Part 2
Part2Signals ==
    IF workflow.current_part = 2 THEN Durations \X ComplexityScores
    ELSE {<< 0, 0 >>}

NextSession ==
    \/ \E c, e, m, o \in BOOLEAN, r \in {"ok", "open_fails"} :
           StartConversation("SG", c, e, m, o, TRUE, r)
    \/ \E x \in Texts, t \in BOOLEAN, r \in RemoteOutcomes, g \in Part2Signals :
           SendText(x, t, r, g)
    \/ \E t \in BOOLEAN, r \in RemoteOutcomes, g \in Part2Signals :
           SendAudio(t, r, g)
    \/ \E t \in BOOLEAN, r \in RemoteOutcomes : CheckAndTransitionParts(t, r)
    \/ \E d \in {840, 841} : Wait(d)

\* one conversation from start to close, with direct switches, the
\* fragments the remote service emits and the time passing to the timeout
\* ceiling
NextLifecycle ==
    \/ \E e \in BOOLEAN, r \in {"ok", "open_fails"} :
           StartConversation("SG", TRUE, e, FALSE, TRUE, TRUE, r)
    \/ \E t \in BOOLEAN, r \in RemoteOutcomes : SendText("fine", t, r, << 0, 0 >>)
    \/ \E t \in BOOLEAN, r \in RemoteOutcomes : SendAudio(t, r, << 0, 0 >>)
    \/ \E m \in {"flash", "flash-lite"}, r \in {"ok", "close_fails", "open_fails"} :
           SwitchModel(m, 2, r)
    \/ \E r \in {"ok", "close_fails"} : Close(r)
    \/ \E k \in {"text", "audio"} : RemoteEmits(k)
    \/ Wait(841)

\* concurrent callers of the ledger
Spec == Init /\ [][Next]_vars

\* one caller of the ledger: its calls run one after the other, and the last
\* completed call is kept in `last`
SpecSeq == InitSeq /\ [][Next]_vars

\* one caller of the ledger over a store whose calls may raise
SpecFaults == InitFaults /\ [][NextFaults]_vars

\* the WebSocket handler beside one caller of the ledger, whose positive
\* check_entitlement results are kept in `access_checked`
SpecHandler == InitHandler /\ [][NextHandler]_vars

\* the regional router: its calls, with time passing between them
SpecRouter == InitRouter /\ [][NextRouter]_vars

\* one conversation with its close, the router it reports to and the
\* response handler
SpecLifecycle == InitLifecycle /\ [][NextLifecycle]_vars

\* one conversation: its session and workflow manager, with time passing
\* between the calls
SpecSession == InitSession /\ [][NextSession]_vars

\* ------------------------------------------------------------ the claims
ByTransaction(tbl, t) == {e \in tbl : e.transaction_id = t}

AllIdle == \A w \in Workers : pc[w] = "idle"

\* the step in which caller w's consume_assessment call writes
ConsumeWrites(w) == pc[w] = "consume_update" /\ pc'[w] = "idle"

\* the item caller w's consume_assessment call chose
Chosen(w) == local[w].entitlements[local[w].i]

\* a step in which a call is started and returns at once
ReturnsAtOnce == calls_left' = calls_left - 1 /\ \A w \in Workers : pc'[w] = "idle"

\* a step in which, with no call in flight, a grant_entitlement call with
\* transaction id t is started
StartsGrant(t) ==
    /\ AllIdle
    /\ calls_left' = calls_left - 1
    /\ \/ \E w \in Workers : pc'[w] = "grant_put" /\ local'[w].transaction_id = t
       \/ AllIdle' /\ last'.op = "grant" /\ last'.transaction_id = t

\* C1: with one caller, a grant_entitlement call that puts its item returns
\* True and leaves exactly one item carrying its transaction id; a
\* grant_entitlement call with transaction id T issued right after a call with
\* T returned True (same or another user, any product) returns False, writes
\* nothing, and exactly one item carries T afterwards.
C1_SecondGrantRejected ==
    [][/\ \A w \in Workers :
              (pc[w] = "grant_put" /\ pc'[w] = "idle") =>
                  /\ last'.result = TRUE
                  /\ Cardinality(ByTransaction(table', local[w].transaction_id)) = 1
       /\ \A t \in TransactionIds :
              (/\ last.op = "grant"
               /\ last.result = TRUE
               /\ last.transaction_id = t
               /\ StartsGrant(t)) =>
                  /\ AllIdle'
                  /\ last'.result = FALSE
                  /\ table' = table
                  /\ Cardinality(ByTransaction(table', t)) = 1
      ]_vars

\* C1 witness: exactly two calls were made, the second a rejected grant for
\* another user with the transaction id the first one stored.
C1_Witness ==
    /\ calls_left = MaxSeqCalls - 2
    /\ AllIdle
    /\ last.op = "grant"
    /\ last.result = FALSE
    /\ ok_grants[last.transaction_id] = 1
    /\ \E e \in table : e.transaction_id = last.transaction_id
                        /\ e.user_id # last.user_id

\* C2: when only two DAL calls have been started (two grant_entitlement calls
\* with the same transaction id that overlap, or follow each other), at most
\* one of them has returned True and at most one item carries the id.
C2_OneGrantOfTwo ==
    calls_left >= MaxCalls - 2 =>
        \A t \in TransactionIds :
            /\ ok_grants[t] <= 1
            /\ Cardinality(ByTransaction(table, t)) <= 1

\* C3: for every key, the consume_assessment calls that returned True on it
\* never outnumber the units granted on it.
C3_ConsumesWithinGrant ==
    \A k \in Keys : ok_consumes[k] <= units_granted[k]

\* C4: assessments_remaining of every stored entitlement is >= 0.
C4_RemainingNonNegative ==
    \A e \in table : e.assessments_remaining >= 0

\* C4 witness: consume_assessment calls have taken the last unit of an
\* entitlement, and a call that finds it consumed has been made since.
C4_Witness ==
    /\ calls_left = 0
    /\ AllIdle
    /\ \E e \in table :
           /\ e.assessments_remaining = 0
           /\ ok_consumes[KeyOf(e)] = 2
           /\ units_granted[KeyOf(e)] = 2

\* C5: a connection whose session was started for a user has a positive
\* check_entitlement for that user behind it, and one whose assessment was
\* completed has a successful consume_assessment of that user behind it.
C5_SessionGatedByLedger ==
    \A c \in Connections :
        /\ sessions_table[c].session_status = "active" =>
               \E m \in ModuleTypes :
                   << sessions_table[c].user_id, m >> \in access_checked
        /\ sessions_table[c].session_status = "completed" =>
               \E p \in Products :
                   ok_consumes[<< sessions_table[c].user_id, p >>] > 0

\* C6: every transaction id for which grant_entitlement returned True has
\* exactly one item in the table.
C6_GrantedRecordKept ==
    \A t \in TransactionIds :
        ok_grants[t] > 0 => Cardinality(ByTransaction(table, t)) = 1

\* C7: no step makes assessments_remaining of a stored entitlement (the item
\* of one key and one transaction id) larger than it was.
C7_RemainingNeverGrows ==
    [][\A e \in table : \A f \in table' :
          (KeyOf(e) = KeyOf(f) /\ e.transaction_id = f.transaction_id) =>
              f.assessments_remaining <= e.assessments_remaining
      ]_vars

\* the only entitlement of user u is the one for product p, as the item e
OnlyEntitlement(tbl, u, p, e) ==
    /\ e \in tbl
    /\ e.user_id = u
    /\ e.product_id = p
    /\ \A f \in tbl : f.user_id = u => f = e

\* C8: for a user whose only entitlement is the one granted for
\* 'com.ieltsaiprep.academic.writing', check_entitlement(user,
\* 'academic_writing') reports the units it has left (2 after the grant),
\* and consume_assessment(user, 'academic_writing', ...) goes on to decrement
\* it while units are left and returns False when none is.
C8_AcademicWritingScenario ==
    [][\A u \in Users : \A e \in table :
          OnlyEntitlement(table, u, "com.ieltsaiprep.academic.writing", e) =>
              /\ (/\ ReturnsAtOnce
                  /\ last'.op = "check"
                  /\ last'.user_id = u
                  /\ last'.module_type = "academic_writing") =>
                     /\ last'.has_access = (e.assessments_remaining > 0)
                     /\ last'.assessments_remaining = e.assessments_remaining
              /\ (/\ ReturnsAtOnce
                  /\ last'.op = "consume"
                  /\ last'.user_id = u
                  /\ last'.module_type = "academic_writing") =>
                     e.assessments_remaining = 0
      ]_vars

\* C9 as stated: the entitlement a consume_assessment call decrements is the
\* oldest (by purchase_date) of the user's active entitlements that match the
\* module type and have units left.
C9_OldestFirst ==
    [][\A w \in Workers :
          ConsumeWrites(w) =>
              \A e \in table :
                  (/\ e.user_id = local[w].user_id
                   /\ Consumable(e, local[w].module_type)) =>
                      Chosen(w).purchase_date <= e.purchase_date
      ]_vars

\* C9 as amended: the entitlement a consume_assessment call chooses is, of the
\* user's active entitlements that match the module type and have units left
\* when the call queries the table, the one with the smallest product_id (the
\* order the query returns them in); the call decrements that item by one and
\* leaves every other item as it was.
C9_FirstInQueryOrder ==
    [][\A w \in Workers :
          /\ (pc[w] = "idle" /\ pc'[w] = "consume_update") =>
                 /\ Chosen(w)' \in table
                 /\ Consumable(Chosen(w)', local'[w].module_type)
                 /\ \A e \in table :
                       (/\ e.user_id = local'[w].user_id
                        /\ e # Chosen(w)'
                        /\ Consumable(e, local'[w].module_type)) =>
                           LexLess(Text(Chosen(w)'.product_id), Text(e.product_id))
          /\ ConsumeWrites(w) =>
                 /\ \A e \in table : KeyOf(e) # KeyOf(Chosen(w)) => e \in table'
                 /\ \E f \in table' :
                       /\ KeyOf(f) = KeyOf(Chosen(w))
                       /\ f.assessments_remaining = Chosen(w).assessments_remaining - 1
      ]_vars

\* C9 witness: a consume has decremented one of two entitlements of the user
\* that both match its module type, and the one it left untouched is the
\* older purchase.
C9_Witness ==
    /\ AllIdle
    /\ last.op = "consume"
    /\ last.result = TRUE
    /\ \E e, f \in table :
           /\ e.user_id = last.user_id /\ f.user_id = last.user_id
           /\ e.product_id = last.product_id /\ f.product_id # last.product_id
           /\ Matches(e, last.module_type) /\ Matches(f, last.module_type)
           /\ e.assessments_remaining = 1 /\ f.assessments_remaining = 2
           /\ f.purchase_date < e.purchase_date

\* C10: a stored entitlement has status 'consumed' if and only if its
\* assessments_remaining is 0, and status 'active' otherwise.
C10_ConsumedIffZero ==
    \A e \in table :
        /\ e.status \in {"active", "consumed"}
        /\ e.status = "consumed" <=> e.assessments_remaining = 0

\* C10 witness: two consume_assessment calls have consumed an entitlement.
C10_Witness ==
    \E e \in table :
        /\ e.status = "consumed"
        /\ e.assessments_remaining = 0
        /\ ok_consumes[KeyOf(e)] = 2

\* a step in which, with no call in flight, a consume_assessment call for
\* user u and module type m is started
StartsConsume(u, m) ==
    /\ AllIdle
    /\ calls_left' = calls_left - 1
    /\ \/ \E w \in Workers : /\ pc'[w] = "consume_update"
                              /\ local'[w].user_id = u
                              /\ local'[w].module_type = m
       \/ AllIdle' /\ last'.op = "consume" /\ last'.user_id = u
                   /\ last'.module_type = m

\* C11: a grant_entitlement call whose transaction_id is empty or only
\* whitespace returns False in the step it is started and leaves the table
\* unchanged, whatever the table holds; no stored item carries such an id.
C11_BlankTransactionRejected ==
    [][/\ \A t \in TransactionIds :
              (IsBlank(Text(t)) /\ StartsGrant(t)) =>
                  /\ AllIdle'
                  /\ last'.result = FALSE
                  /\ table' = table
                  /\ ok_grants' = ok_grants
       /\ \A e \in table' : \E i \in 1..Len(Text(e.transaction_id)) :
              Text(e.transaction_id)[i] # " "
      ]_vars

\* C11 witness: a grant_entitlement call with a whitespace-only id was
\* rejected while the table already held an entitlement.
C11_Witness ==
    /\ AllIdle
    /\ last.op = "grant"
    /\ last.transaction_id = " "
    /\ last.result = FALSE
    /\ table # {}

\* the user has no active entitlement whose lower-cased product id contains
\* the module type and that has units left
NothingToConsume(tbl, u, m) ==
    \A e \in tbl :
        ~(/\ e.user_id = u
          /\ e.status = "active"
          /\ Contains(Text(m), Lower(Text(e.product_id)))
          /\ e.assessments_remaining > 0)

\* C12: a consume_assessment call for a user with no active entitlement that
\* matches the module type and has units left returns False and leaves the
\* table unchanged.
C12_NothingToConsume ==
    [][\A u \in Users : \A m \in ModuleTypes :
          (NothingToConsume(table, u, m) /\ StartsConsume(u, m)) =>
              /\ AllIdle'
              /\ last'.result = FALSE
              /\ table' = table
              /\ ok_consumes' = ok_consumes
      ]_vars

\* C12 witness: consume_assessment returned False for a user who holds a
\* consumed entitlement matching the module type and an entitlement of a
\* product that does not match it.
C12_Witness ==
    /\ AllIdle
    /\ last.op = "consume"
    /\ last.result = FALSE
    /\ \E e, f \in table :
           /\ e.user_id = last.user_id /\ f.user_id = last.user_id
           /\ e.status = "consumed"
           /\ Contains(Text(last.module_type), Lower(Text(e.product_id)))
           /\ f.status = "active"
           /\ ~Contains(Text(last.module_type), Lower(Text(f.product_id)))

C14_StaleAfterThirtyMinutes ==
    \A r \in CatalogRegions :
        (region_health[r].failure_count = 0 /\ region_health[r].status = "healthy") =>
            (is_region_healthy(region_health, utcnow, r)
                <=> utcnow - region_health[r].last_success <= 30)

\* C14 witness: at minute 31 a region without failures that never had a
\* success is unhealthy, beside one whose last success is 16 minutes old.
C14_Witness ==
    /\ utcnow = 31
    /\ \E r, q \in CatalogRegions :
           /\ region_health[r].failure_count = 0
           /\ region_health[r].last_success = 0
           /\ ~is_region_healthy(region_health, utcnow, r)
           /\ region_health[q].last_success = 15
           /\ is_region_healthy(region_health, utcnow, q)

\* the candidates of get_optimal_region, in their order
Candidates(c, p) == << p, COUNTRY_TO_REGION(Upper(c)), "us-central1" >>

\* region r is in the catalog and healthy now
Usable(r) == r \in CatalogRegions /\ is_region_healthy(region_health, utcnow, r)

\* C15: for every country_code and preferred_region, when one of the
\* candidates preferred_region, region mapped from country_code,
\* 'us-central1' is in the catalog and healthy, get_optimal_region returns the
\* first such candidate.
C15_FirstHealthyCandidate ==
    \A c \in CountryCodes : \A p \in PreferredRegions :
        \A i \in 1..3 :
            (/\ Usable(Candidates(c, p)[i])
             /\ \A j \in 1..(i - 1) : ~Usable(Candidates(c, p)[j])) =>
                get_optimal_region(region_health, utcnow, c, p) = {Candidates(c, p)[i]}

\* C15 witness: get_optimal_region returned the Singapore region while it,
\* the default region and the other preferred_region were all healthy.
C15_Witness ==
    /\ router_last.op = "get_optimal_region"
    /\ router_last.region = "asia-southeast1"
    /\ \A r \in CatalogRegions : Usable(r)

SessionStep == session_calls_left' = session_calls_left - 1

\* C17: the parts configured on the workflow state are 1, 2, 3 in that
\* order, each at most once and none above 3; a call that configures a part
\* configures the part after the current one.
C17_PartsInOrder ==
    [][/\ Len(parts_configured') <= 3
       /\ \A i \in 1..Len(parts_configured') : parts_configured'[i].part = i
       /\ (SessionStep /\ session # NoLiveSession
              /\ parts_configured' # parts_configured) =>
              /\ Len(parts_configured') = Len(parts_configured) + 1
              /\ SubSeq(parts_configured', 1, Len(parts_configured)) = parts_configured
              /\ parts_configured'[Len(parts_configured')].part =
                     workflow.current_part + 1
              /\ workflow'.current_part = workflow.current_part + 1
      ]_vars

\* C17 witness: Parts 1, 2 and 3 were configured, and a call that found no
\* part left to configure was made after them.
C17_Witness ==
    /\ Len(parts_configured) = 3
    /\ workflow.current_part = 3
    /\ session_calls_left = 0
    /\ seconds = 0
    /\ session_last.op = "check_and_transition_parts"
    /\ session_last.result = "False"

TimedOutCheck ==
    /\ SessionStep
    /\ session # NoLiveSession
    /\ seconds - session.start_time > 840
    /\ \/ session_last'.op = "check_and_transition_parts"
       \/ session_last'.op \in {"send_text", "send_audio"} /\ session_last'.forwarded = 1

\* the step leaves the part, the parts configured, the model, the connection
\* and is_connected as they were
NothingSwitched ==
    /\ workflow'.current_part = workflow.current_part
    /\ parts_configured' = parts_configured
    /\ session'.model_id = session.model_id
    /\ session'.prompt = session.prompt
    /\ session'.session = session.session
    /\ session'.is_connected = session.is_connected

\* C19: a call of check_and_transition_parts on a session started more than
\* 840 seconds ago sends a timeout warning to the caller, switches nothing
\* and does not close or disconnect the session.
C19_TimeoutWarning ==
    [][TimedOutCheck =>
          /\ \E i \in 1..Len(session_last'.posted) :
                 session_last'.posted[i] = "timeout_warning"
          /\ NothingSwitched
      ]_vars

\* C20: send_text on a connected session with a text the moderation callback
\* rejects returns without raising, forwards nothing and leaves the
\* transcript, the tracked responses, the message counter and the current
\* part as they were.
C20_RejectedTextDropped ==
    [][(/\ SessionStep
        /\ session_last'.op = "send_text"
        /\ session # NoLiveSession
        /\ session.is_connected
        /\ session.session # NoHandle
        /\ session.moderated
        /\ session_last'.text = "offensive") =>
           /\ ~session_last'.raised
           /\ session_last'.forwarded = 0
           /\ session'.conversation_transcript = session.conversation_transcript
           /\ workflow'.tracked = workflow.tracked
           /\ session'.messages_in_current_part = session.messages_in_current_part
           /\ workflow'.current_part = workflow.current_part
      ]_vars

\* C20 witness: on a moderated, connected session whose transcript holds an
\* accepted text, a send_text with the rejected text has returned.
C20_Witness ==
    /\ session # NoLiveSession
    /\ session.is_connected
    /\ session.moderated
    /\ session_last.op = "send_text"
    /\ session_last.text = "offensive"
    /\ ~session_last.raised
    /\ session_last.forwarded = 0
    /\ Len(session.conversation_transcript) = 1
    /\ workflow.tracked = 1

\* a completed call of the ledger in which a store call raised
StoreFailed(call) == "store_error" \in DOMAIN call

\* the step that ends caller w's grant_entitlement call whose lookup on the
\* transaction index raised
EndsGrantAfterFailedLookup(w) ==
    /\ pc[w] = "grant_put"
    /\ "lookup_failed" \in DOMAIN local[w]
    /\ pc'[w] = "idle"

\* C26: a storage error raised by the store during grant_entitlement,
\* check_entitlement, consume_assessment or get_user_entitlements reaches
\* the caller as an error, not as the ordinary result of the operation.
C26_StoreErrorsBubble == StoreFailed(last) => last.raised

\* C28: a grant_entitlement call whose lookup on the transaction index
\* failed with a storage error writes nothing and returns false.
C28_FailedLookupGrantsNothing ==
    [][\A w \in Workers :
          EndsGrantAfterFailedLookup(w) => table' = table /\ last'.result = FALSE]_vars

\* the session with this id is the cached session of some connection
CachedSomewhere(id) ==
    \E c \in Connections : active_sessions[c] # NoSession /\ active_sessions[c].id = id

\* C29: in the WebSocket handler every open session is the cached session
\* of its connection: a session leaves active_sessions only after its
\* close() was called.
C29_OpenSessionsCached == \A id \in open_sessions : CachedSomewhere(id)

\* a step in which switch_model is called directly on a connected session
\* and returns without an error
SuccessfulSwitch ==
    /\ SessionStep
    /\ session_last'.op = "switch_model"
    /\ session.is_connected
    /\ ~session_last'.raised

AlreadyClosed ==
    /\ session # NoLiveSession
    /\ session.session # NoHandle
    /\ ~session.session.open
    /\ ~session.is_connected

\* C22: close() on a session that was already closed is a no-op: nothing is
\* reported to the router, nothing is posted, the remote connection is not
\* closed again and no error is raised.
C22_CloseIdempotent ==
    [][(AlreadyClosed /\ SessionStep /\ session_last'.op = "close") =>
          /\ session_last'.reported = << >>
          /\ session_last'.posted = << >>
          /\ session_last'.closes = 0
          /\ ~session_last'.raised
          /\ region_health' = region_health
          /\ session' = session
      ]_vars

\* a step in which connect, switch_model, send_audio or send_text gets an
\* error from the remote service
FailedRequest ==
    /\ SessionStep
    /\ session_last'.op \in {"start", "switch_model", "send_audio", "send_text"}
    /\ session_last'.remote_error

\* C23: every failed request of a session to its region is recorded on the
\* shared router by mark_failure for that region.
C23_FailuresRecorded ==
    [][FailedRequest =>
          /\ session_last'.reported = << "mark_failure" >>
          /\ region_health' = mark_failure(region_health, session'.region)
      ]_vars

\* the outcomes of a send on the session as it is now: send_text of a text,
\* or send_audio
Sends(should_transition, remote, signals) ==
    LET run == Running(session, workflow, parts_configured)
    IN  {send_text(run, x, seconds, should_transition, remote, signals) : x \in Texts}
        \cup {send_audio(run, seconds, should_transition, remote, signals)}

\* the send went to the remote service and the call returned
ForwardedAndReturned(done) == done.forwarded = 1 /\ ~done.raised

\* C24: a send_audio or send_text that was forwarded and returns has
\* consulted should_transition: when it is true, with the timeout ceiling not
\* exceeded and the part below 3, the workflow is in the next part and the
\* session is connected on a new open connection for the model configured
\* for that part; when it is false, part and connection are as they were.
C24_TransitionBeforeReturn ==
    session # NoLiveSession =>
        \A r \in RemoteOutcomes, g \in Part2Signals :
            /\ \A done \in Sends(TRUE, r, g) :
                   (/\ ForwardedAndReturned(done)
                    /\ ~check_lambda_timeout(session, seconds)
                    /\ workflow.current_part < 3) =>
                       /\ done.workflow.current_part = workflow.current_part + 1
                       /\ done.session.is_connected
                       /\ done.session.session.open
                       /\ done.session.session.id = session.session.id + 1
                       /\ done.session.session.model = done.cfg[Len(done.cfg)].model
                       /\ done.cfg[Len(done.cfg)].part = done.workflow.current_part
            /\ \A done \in Sends(FALSE, r, g) :
                   ForwardedAndReturned(done) =>
                       /\ done.workflow.current_part = workflow.current_part
                       /\ done.session.session = session.session

\* C24 witness: a send_audio was forwarded and returned with the session
\* moved to Part 2 on its second connection.
C24_Witness ==
    /\ session_last.op = "send_audio"
    /\ session_last.forwarded = 1
    /\ ~session_last.raised
    /\ workflow.current_part = 2
    /\ session.session.open
    /\ session.session.id = 2

\* C25: an error of the remote service during connect, switch_model,
\* send_audio or send_text is raised to the caller; no call attempts more
\* than one connection or forwards its input twice, a connect attempts
\* exactly one, and after a failed connect the session is not connected, has
\* no connection and no response handler.
C25_RemoteErrorsRaised ==
    session_last.op \in {"start", "switch_model", "send_audio", "send_text"} =>
        /\ session_last.remote_error => session_last.raised
        /\ session_last.attempts <= 1
        /\ session_last.forwarded <= 1
        /\ session_last.op = "start" =>
               /\ session_last.attempts = 1
               /\ session_last.raised =>
                      /\ ~session.is_connected
                      /\ session.session = NoHandle
                      /\ session.response_task = 0

\* C25 witness: a switch_model on a connected session closed the connection,
\* failed to open the new one and raised.
C25_Witness ==
    /\ session_last.op = "switch_model"
    /\ session_last.remote_error
    /\ session_last.raised
    /\ session_last.closes = 1
    /\ session_last.attempts = 1

\* C27: a fragment the remote service emits on the current connection of a
\* connected session is delivered to the sinks.
C27_FragmentsDelivered ==
    session_last.op = "emit" => session_last.result = "delivered"

\* C30: a session whose is_connected is true holds an open connection that
\* was opened for its model_id, and its workflow is not in a part for which
\* no connection was opened.
C30_ConnectedMeansOpen ==
    (session # NoLiveSession /\ session.is_connected) =>
        /\ session.session.open
        /\ session.session.model = session.model_id
        /\ workflow.current_part <= session.session.id
====
